---- MODULE Spec2Model ----
(***************************************************************************)
(* Model of the multi-agent sales orchestrator (src/orchestrator.py), its  *)
(* role agents (src/agents/*.py), the conversation state (src/state.py),   *)
(* the session stores (src/memory.py) and the two callers that drive it:   *)
(* the command line demo (src/main.py) and the web handlers                *)
(* (src/web/app.py).                                                       *)
(*                                                                         *)
(* Text is modelled as a sequence of one-character strings; the accented   *)
(* letters of the French phrases are the symbols "e_acute" and             *)
(* "c_cedilla".  A completion-service reply is modelled after parsing: a   *)
(* record with ok = FALSE for text json.loads rejects, and otherwise the   *)
(* fields of the JSON object, a field the object omits being None.         *)
(***************************************************************************)
EXTENDS Integers, Sequences, FiniteSets, TLC

VARIABLES
    deploy,          \* "cli" (main.py, InMemoryStore) or "web" (app.py, JSONFileStore)
    store,           \* Session Store: session id -> <<>> (absent) or <<state>>
    insights,        \* the store's insight log (save_insight)
    st,              \* state of the graph run in flight: <<>> or <<state>>
    pc,              \* "idle", or the graph node about to execute
    steps,           \* supersteps executed by the run in flight
    result,          \* what the last call gave its caller
    calls,           \* calls made so far to run_conversation/continue_conversation
    started,         \* session ids already given to run_conversation
    invoked,         \* roles invoked by the run in flight, in order
    llm_calls,       \* completion-service calls made by the run in flight
    last,            \* label of the last step taken
    msg,             \* message under test (specification of _check_for_conversion)
    heap,            \* InMemoryStore side: the dict objects of the caller, by address
    mem_sessions,    \* InMemoryStore.sessions: session id -> <<>> or <<address>>
    files,           \* JSONFileStore: file path -> <<>> or <<JSON document>>
    held,            \* the object the caller holds on each side
    saved,           \* per session id: the states last passed to save_session
    requests         \* concurrent web handlers: session id -> <<>> or <<request>>

vars == <<deploy, store, insights, st, pc, steps, result, calls, started,
          invoked, llm_calls, last, msg,
         heap, mem_sessions, files, held, saved, requests>>

storage_vars == <<heap, mem_sessions, files, held, saved>>

(***************************************************************************)
(* Bounds of the model.                                                    *)
(***************************************************************************)
\* calls to run_conversation / continue_conversation explored
MaxCalls == 1
\* supersteps one graph.invoke may take before GraphRecursionError
RecursionLimit == 6
\* length of the messages _check_for_conversion is tried on
MaxMsgLen == 4
\* state dicts the caller of the stores creates
MaxObjects == 1

None == "None"

\* "s1": a session id known before start-up; "s2": the id uuid4 hands out
SessionIds == {"s1", "s2"}
NewSessionIds == {"s2"}

(***************************************************************************)
(* Text helpers.                                                           *)
(***************************************************************************)
lower_char(c) ==
    CASE c = "A" -> "a"
      [] c = "B" -> "b"
      [] c = "C" -> "c"
      [] c = "D" -> "d"
      [] c = "E" -> "e"
      [] c = "F" -> "f"
      [] c = "G" -> "g"
      [] c = "H" -> "h"
      [] c = "I" -> "i"
      [] c = "J" -> "j"
      [] c = "K" -> "k"
      [] c = "L" -> "l"
      [] c = "M" -> "m"
      [] c = "N" -> "n"
      [] c = "O" -> "o"
      [] c = "P" -> "p"
      [] c = "Q" -> "q"
      [] c = "R" -> "r"
      [] c = "S" -> "s"
      [] c = "T" -> "t"
      [] c = "U" -> "u"
      [] c = "V" -> "v"
      [] c = "W" -> "w"
      [] c = "X" -> "x"
      [] c = "Y" -> "y"
      [] c = "Z" -> "z"
      [] c = "E_ACUTE" -> "e_acute"
      [] c = "C_CEDILLA" -> "c_cedilla"
      [] OTHER -> c

lower(s) == [i \in 1..Len(s) |-> lower_char(s[i])]

\* \w of Python's re on str, restricted to lower-cased text
WordChars ==
    {"a", "b", "c", "d", "e", "f", "g", "h", "i", "j", "k", "l", "m", "n", "o", "p", "q", "r", "s", "t", "u", "v", "w", "x", "y", "z", "0", "1", "2", "3", "4", "5", "6", "7", "8", "9", "_", "e_acute", "c_cedilla"}

\* pattern p occurs in s starting at position i
occurs_at(p, s, i) ==
    /\ i >= 1
    /\ i + Len(p) - 1 <= Len(s)
    /\ \A j \in 1..Len(p) : s[i + j - 1] = p[j]

\* \b holds between positions i and i+1 of s (0 <= i <= Len(s))
word_boundary_at(s, i) ==
    LET before == i >= 1 /\ s[i] \in WordChars
        after  == i + 1 <= Len(s) /\ s[i + 1] \in WordChars
    IN before # after

\* re.search(keyword, s) for the keywords of the list: plain text, or \b...\b
re_search(k, s) ==
    \E i \in 1..Len(s) :
        /\ occurs_at(k.pattern, s, i)
        /\ k.word_boundary =>
              /\ word_boundary_at(s, i - 1)
              /\ word_boundary_at(s, i + Len(k.pattern) - 1)

conversion_keywords ==
    <<
      [pattern |-> <<"y","e","s">>, word_boundary |-> FALSE],
      [pattern |-> <<"s","u","r","e">>, word_boundary |-> FALSE],
      [pattern |-> <<"o","k">>, word_boundary |-> TRUE],
      [pattern |-> <<"o","k","a","y">>, word_boundary |-> FALSE],
      [pattern |-> <<"l","e","t","'","s"," ","d","o"," ","i","t">>, word_boundary |-> FALSE],
      [pattern |-> <<"l","e","t","'","s"," ","g","o">>, word_boundary |-> FALSE],
      [pattern |-> <<"s","i","g","n"," ","m","e"," ","u","p">>, word_boundary |-> FALSE],
      [pattern |-> <<"i","'","l","l"," ","t","a","k","e"," ","i","t">>, word_boundary |-> FALSE],
      [pattern |-> <<"s","o","u","n","d","s"," ","g","o","o","d">>, word_boundary |-> FALSE],
      [pattern |-> <<"d","e","a","l">>, word_boundary |-> FALSE],
      [pattern |-> <<"a","g","r","e","e","d">>, word_boundary |-> FALSE],
      [pattern |-> <<"a","c","c","e","p","t">>, word_boundary |-> FALSE],
      [pattern |-> <<"i","'","m"," ","i","n">>, word_boundary |-> FALSE],
      [pattern |-> <<"l","e","t","'","s"," ","s","t","a","r","t">>, word_boundary |-> FALSE],
      [pattern |-> <<"p","r","o","c","e","e","d">>, word_boundary |-> FALSE],
      [pattern |-> <<"d","'","a","c","c","o","r","d">>, word_boundary |-> FALSE],
      [pattern |-> <<"j","e"," ","s","u","i","s"," ","i","n","t","e_acute","r","e","s","s","e_acute">>, word_boundary |-> FALSE],
      [pattern |-> <<"a","l","l","o","n","s","-","y">>, word_boundary |-> FALSE],
      [pattern |-> <<"b","a","n","c","o">>, word_boundary |-> FALSE],
      [pattern |-> <<"o","n"," ","y"," ","v","a">>, word_boundary |-> FALSE],
      [pattern |-> <<"j","e"," ","p","r","e","n","d","s">>, word_boundary |-> FALSE],
      [pattern |-> <<"j","e"," ","s","i","g","n","e">>, word_boundary |-> FALSE],
      [pattern |-> <<"c","'","e","s","t"," ","b","o","n">>, word_boundary |-> FALSE],
      [pattern |-> <<"c_cedilla","a"," ","m","a","r","c","h","e">>, word_boundary |-> FALSE],
      [pattern |-> <<"p","a","r","f","a","i","t">>, word_boundary |-> FALSE],
      [pattern |-> <<"j","e"," ","v","a","l","i","d","e">>, word_boundary |-> FALSE],
      [pattern |-> <<"o","n"," ","f","o","n","c","e">>, word_boundary |-> FALSE]
    >>

conversion_match(current_message) ==
    \E n \in 1..Len(conversion_keywords) :
        re_search(conversion_keywords[n], lower(current_message))

\* variant: the message is searched as typed, without .lower()
check_for_conversion_case_sensitive(state) ==
    \E n \in 1..Len(conversion_keywords) :
        re_search(conversion_keywords[n], state.current_message)

check_for_conversion(state) == conversion_match(state.current_message)

(***************************************************************************)
(* Conversation state (src/state.py).                                      *)
(***************************************************************************)
\* An optional value is <<>> (None, or a key the JSON object omits) or <<v>>.
Some(v) == <<v>>
Nothing == <<>>

\* dict.get(key, default) on a parsed reply
Get(opt, default) == IF opt = Nothing THEN default ELSE opt[1]

\* LeadInfo().to_dict(), restricted to the keys the model follows
default_lead_info == [name |-> None, sector |-> None, pain_points |-> <<>>]

\* what the web form hands to run_conversation, and no seed at all
LeadInfoSeeds ==
    { [name |-> None, sector |-> None, pain_points |-> Nothing],
      [name |-> "Ann", sector |-> "services", pain_points |-> Some(<<"gouvernance">>)] }

create_initial_state(initial_message, session_id) ==
    [ messages           |-> <<>>,
      current_message    |-> initial_message,
      lead_info          |-> default_lead_info,
      lead_type          |-> None,
      lead_score         |-> 0,
      current_agent      |-> "start",
      last_agent         |-> None,
      offers_made        |-> <<>>,
      current_offer      |-> Nothing,
      objections         |-> <<>>,
      objections_handled |-> <<>>,
      negotiation_count  |-> 0,
      qualified          |-> FALSE,
      converted          |-> FALSE,
      escalated          |-> FALSE,
      closed             |-> FALSE,
      session_id         |-> session_id,
      context            |-> "initial",
      next_action        |-> None,
      crm_synced         |-> FALSE,
      key_insights       |-> <<>>,
      sentiment          |-> "neutral" ]

\* a message of the history: metadata is kept as the agent and one note
Message(role, content, agent, note) ==
    [role |-> role, content |-> content, agent |-> agent, note |-> note]

\* variant: the new message replaces the history
add_message_replacing(state, role, content) ==
    [state EXCEPT !.messages = <<Message(role, content, None, None)>>]

add_message(state, role, content) ==
    [state EXCEPT !.messages = Append(@, Message(role, content, None, None))]

\* lead_info.update({k: v for k, v in seed.items() if v is not None})
seed_lead_info(existing, seed) ==
    [ name        |-> IF seed.name # None THEN seed.name ELSE existing.name,
      sector      |-> IF seed.sector # None THEN seed.sector ELSE existing.sector,
      pain_points |-> Get(seed.pain_points, existing.pain_points) ]

(***************************************************************************)
(* Replies of the completion service, after parsing.                       *)
(***************************************************************************)
Malformed == [ok |-> FALSE]

LeadTypes    == {None, "chaud"}
LeadScores   == {Some(39), Some(40)}
\* the optional keys of a classification: all given, or all omitted
LeadFields   ==
    { [sector |-> "tech", pain_points |-> Some(<<"shadow_ia">>),
       key_insights |-> Some(<<"insight">>)],
      [sector |-> None, pain_points |-> Nothing, key_insights |-> Nothing] }
Remises      == {Nothing, Some(20)}
Sentiments   == {Some("positif")}
NextAgents   == {"classifier", "seller", "negotiator", "crm", "none", "end"}

ClassifierReplies ==
    {Malformed} \cup
    { [ ok |-> TRUE, lead_type |-> t, lead_score |-> n,
        sector |-> f.sector, pain_points |-> f.pain_points,
        key_insights |-> f.key_insights ] :
      t \in LeadTypes, n \in LeadScores, f \in LeadFields }

SellerReplies ==
    {Malformed} \cup [ ok : {TRUE}, remise : Remises ]

NegotiatorReplies ==
    {Malformed} \cup
    [ ok : {TRUE}, objection_summary : {Nothing},
      adjusted_offer : {Nothing, Some([offre |-> "AJUSTEE", remise |-> 20])},
      should_escalate : BOOLEAN ]

\* an analysis that closes (goal_achieved or should_close, where next_agent
\* is not read) or one that names the next agent
SupervisorReplies ==
    {Malformed} \cup
    { r \in [ ok : {TRUE}, goal_achieved : BOOLEAN, should_close : BOOLEAN,
              should_escalate : BOOLEAN, next_agent : {None},
              prospect_sentiment : Sentiments ] :
        r.goal_achieved # r.should_close } \cup
    [ ok : {TRUE}, goal_achieved : {FALSE}, should_close : {FALSE},
      should_escalate : BOOLEAN, next_agent : NextAgents \cup {None},
      prospect_sentiment : Sentiments ]

\* outcome of one role's process(): the state it returns, or the exception
\* that leaves it, and whether the completion service was called
Returned(state, called) == [raised |-> None, state |-> state, called |-> called]
Raised(exc, state, called) == [raised |-> exc, state |-> state, called |-> called]

\* parse of a reply: the parsed object, or JSONDecodeError
parse_llm_json(reply) ==
    IF reply.ok THEN [error |-> None, value |-> Some(reply)]
                ELSE [error |-> "JSONDecodeError", value |-> Nothing]

(***************************************************************************)
(* Role agents (src/agents).                                               *)
(***************************************************************************)
QualificationThreshold == 40

\* variant of the parse-failure defaults that keeps the earlier score
classifier_defaults_keep_score(state) ==
    [state EXCEPT !.qualified = FALSE, !.next_action = "seller"]

\* the defaults set when the classification cannot be parsed
classifier_defaults(state) ==
    [state EXCEPT !.qualified = FALSE, !.lead_score = 0,
                  !.next_action = "seller"]

classifier_process(state, reply) ==
    IF reply.ok
    THEN LET score     == Get(reply.lead_score, 0)
             qualified == score >= QualificationThreshold
             lead_info == [state.lead_info EXCEPT
                              !.sector      = reply.sector,
                              !.pain_points = Get(reply.pain_points, <<>>)]
         IN Returned(
              [state EXCEPT
                 !.lead_info     = lead_info,
                 !.lead_type     = reply.lead_type,
                 !.lead_score    = score,
                 !.qualified     = qualified,
                 !.key_insights  = @ \o Get(reply.key_insights, <<>>),
                 !.last_agent    = state.current_agent,
                 !.current_agent = "classifier",
                 !.next_action   = IF qualified THEN "seller" ELSE "nurture",
                 !.context       = IF qualified THEN "qualified_lead"
                                                ELSE "unqualified_lead"],
              TRUE)
    ELSE Returned(classifier_defaults(state), TRUE)

\* variant: the fallback gives up and escalates
seller_fallback_escalating(state) ==
    [state EXCEPT
       !.messages = Append(@, Message("assistant", <<"RAW">>,
                                      "seller", "parse_failed")),
       !.escalated = TRUE]

\* variant: the fallback also suspends the run
seller_fallback_waits(state) ==
    [state EXCEPT
       !.messages = Append(@, Message("assistant", <<"RAW">>,
                                      "seller", "parse_failed")),
       !.next_action = "wait_for_response"]

\* the raw completion text is appended when the offer cannot be parsed
seller_fallback(state) ==
    [state EXCEPT
       !.messages = Append(@, Message("assistant", <<"RAW">>,
                                      "seller", "parse_failed"))]

seller_process(state, reply) ==
    IF reply.ok
    THEN LET offer == [offre |-> "DIAGNOSTIC", remise |-> Get(reply.remise, 0)]
         IN Returned(
              [state EXCEPT
                 !.current_offer = Some(offer),
                 !.offers_made   = Append(@, offer),
                 !.messages      = Append(@, Message("assistant", <<"PITCH">>,
                                                     "seller", "offer")),
                 !.last_agent    = state.current_agent,
                 !.current_agent = "seller",
                 !.context       = "offer_presented",
                 !.next_action   = "wait_for_response"],
              TRUE)
    ELSE Returned(seller_fallback(state), TRUE)

MaxNegotiations == 3

\* variant: no limit check
negotiator_limit_unchecked(state) == FALSE

\* variant: a limit check that lets one more round through
negotiator_limit_off_by_one(state) == state.negotiation_count > MaxNegotiations

negotiator_limit_reached(state) == state.negotiation_count >= MaxNegotiations

\* variant: a round counted twice
next_negotiation_count_by_two(negotiation_count) == negotiation_count + 2

next_negotiation_count(negotiation_count) == negotiation_count + 1

negotiator_escalate(state) ==
    [state EXCEPT
       !.escalated   = TRUE,
       !.next_action = "escalate",
       !.messages    = Append(@, Message("assistant", <<"ESCALATION">>,
                                         "negotiator", "escalate"))]

\* variant: the adjusted offer becomes current without being recorded
adjust_offer_not_recorded(state, adjusted_offer) ==
    [state EXCEPT !.current_offer = adjusted_offer]

\* the adjusted offer becomes current and is recorded in offers_made
adjust_offer(state, adjusted_offer) ==
    [state EXCEPT !.current_offer = adjusted_offer,
                  !.offers_made   = Append(@, adjusted_offer[1])]

negotiator_process(state, reply) ==
    IF negotiator_limit_reached(state)
    THEN Returned(negotiator_escalate(state), FALSE)
    ELSE IF parse_llm_json(reply).error = "JSONDecodeError"
    \* the handler prints `content`, a name the method never binds
    THEN Raised("NameError", state, TRUE)
    ELSE LET negotiation == parse_llm_json(reply).value[1]
             s1 == [state EXCEPT
                      !.objections = Append(@, Get(negotiation.objection_summary,
                                                   state.current_message))]
             s2 == IF negotiation.adjusted_offer # Nothing
                   THEN adjust_offer(s1, negotiation.adjusted_offer)
                   ELSE s1
             s3 == [s2 EXCEPT
                      !.messages = Append(@, Message("assistant", <<"RESPONSE">>,
                                                     "negotiator", "round")),
                      !.negotiation_count = next_negotiation_count(state.negotiation_count),
                      !.last_agent    = state.current_agent,
                      !.current_agent = "negotiator",
                      !.context       = "negotiating"]
         IN Returned(
              IF negotiation.should_escalate
              THEN [s3 EXCEPT !.escalated = TRUE, !.next_action = "escalate",
                              !.key_insights = Append(@, "Escalade")]
              ELSE [s3 EXCEPT !.next_action = "wait_for_response"],
              TRUE)

supervisor_process(state, reply) ==
    IF reply.ok
    THEN LET s1 == [state EXCEPT
                      !.sentiment     = Get(reply.prospect_sentiment, "neutre"),
                      !.key_insights  = Append(@, "Superviseur"),
                      !.last_agent    = state.current_agent,
                      !.current_agent = "supervisor"]
             next_agent == IF reply.next_agent = None THEN "none"
                           ELSE reply.next_agent
         IN Returned(
              IF reply.goal_achieved \/ reply.should_close
              THEN [s1 EXCEPT !.next_action = "crm",
                              !.escalated = IF reply.should_escalate
                                            THEN TRUE ELSE @]
              ELSE IF next_agent # "none"
                   THEN [s1 EXCEPT !.next_action = next_agent]
                   ELSE [s1 EXCEPT !.next_action = "wait_for_response"],
              TRUE)
    ELSE Returned([state EXCEPT !.next_action = "wait_for_response"], TRUE)

\* variant: the escalated closing text takes precedence
closing_message_escalated_first(state) ==
    IF state.escalated THEN <<"CLOSING_ESCALATED">>
    ELSE IF state.converted THEN <<"CLOSING_CONVERTED">>
    ELSE <<"CLOSING_DEFAULT">>

\* the closing text: if converted / elif escalated / else
closing_message(state) ==
    IF state.converted THEN <<"CLOSING_CONVERTED">>
    ELSE IF state.escalated THEN <<"CLOSING_ESCALATED">>
    ELSE <<"CLOSING_DEFAULT">>

crm_process(state) ==
    [state EXCEPT
          !.crm_synced    = TRUE,
          !.last_agent    = state.current_agent,
          !.current_agent = "crm",
          !.messages      = Append(@, Message("assistant", closing_message(state),
                                              "crm", "synced")),
          !.closed        = TRUE,
          !.next_action   = "end"]

(***************************************************************************)
(* Session Store (src/memory.py).  Both backends map a session id to the   *)
(* state last saved under it.  InMemoryStore keeps the caller's dict       *)
(* itself, so load_session hands back that very object; JSONFileStore      *)
(* writes a copy to a file and reads a fresh copy back.                    *)
(***************************************************************************)
backend == IF deploy = "cli" THEN "InMemoryStore" ELSE "JSONFileStore"

load_session(sessions, session_id) == sessions[session_id]

save_insights(log, state) ==
    log \o [i \in 1..Len(state.key_insights) |->
               [session_id |-> state.session_id, insight |-> state.key_insights[i]]]

(***************************************************************************)
(* The two backends in detail.  InMemoryStore.save_session puts the        *)
(* caller's dict itself into self.sessions, and load_session hands that    *)
(* same dict back.  JSONFileStore.save_session writes the state with       *)
(* json.dump to sessions/<session_id>.json, and load_session builds a new  *)
(* dict from the file with json.load.                                      *)
(***************************************************************************)
JNull == [t |-> "null"]
JString(s) == [t |-> "string", v |-> s]
JNumber(n) == [t |-> "number", v |-> n]
JBool(b) == [t |-> IF b THEN "true" ELSE "false"]
JArray(items) == [t |-> "array", v |-> items]
JObject(members) == [t |-> "object", v |-> members]

\* json.dump: Python value -> JSON value
json_optional_string(v) == IF v = None THEN JNull ELSE JString(v)

json_message(m) ==
    JObject([ role    |-> JString(m.role),
              content |-> JString(m.content),
              agent   |-> json_optional_string(m.agent),
              note    |-> json_optional_string(m.note) ])

json_offer(o) ==
    JObject([offre |-> JString(o.offre), remise |-> JNumber(o.remise)])

json_lead_info(li) ==
    JObject([ name        |-> json_optional_string(li.name),
              sector      |-> json_optional_string(li.sector),
              pain_points |-> JArray([i \in 1..Len(li.pain_points) |-> JString(li.pain_points[i])]) ])

json_dump(state) ==
    JObject([
      messages           |-> JArray([i \in 1..Len(state.messages) |-> json_message(state.messages[i])]),
      current_message    |-> JString(state.current_message),
      lead_info          |-> json_lead_info(state.lead_info),
      lead_type          |-> json_optional_string(state.lead_type),
      lead_score         |-> JNumber(state.lead_score),
      current_agent      |-> JString(state.current_agent),
      last_agent         |-> json_optional_string(state.last_agent),
      offers_made        |-> JArray([i \in 1..Len(state.offers_made) |-> json_offer(state.offers_made[i])]),
      current_offer      |-> IF state.current_offer = Nothing THEN JNull
                             ELSE json_offer(state.current_offer[1]),
      objections         |-> JArray([i \in 1..Len(state.objections) |-> JString(state.objections[i])]),
      objections_handled |-> JArray([i \in 1..Len(state.objections_handled) |-> JString(state.objections_handled[i])]),
      negotiation_count  |-> JNumber(state.negotiation_count),
      qualified          |-> JBool(state.qualified),
      converted          |-> JBool(state.converted),
      escalated          |-> JBool(state.escalated),
      closed             |-> JBool(state.closed),
      session_id         |-> JString(state.session_id),
      context            |-> JString(state.context),
      next_action        |-> json_optional_string(state.next_action),
      crm_synced         |-> JBool(state.crm_synced),
      key_insights       |-> JArray([i \in 1..Len(state.key_insights) |-> JString(state.key_insights[i])]),
      sentiment          |-> JString(state.sentiment) ])

\* json.load: JSON value -> Python value
python_scalar(j) ==
    CASE j.t = "null"  -> None
      [] j.t = "true"  -> TRUE
      [] j.t = "false" -> FALSE
      [] OTHER         -> j.v

python_message(j) ==
    [ role    |-> python_scalar(j.v.role),
      content |-> python_scalar(j.v.content),
      agent   |-> python_scalar(j.v.agent),
      note    |-> python_scalar(j.v.note) ]

python_offer(j) ==
    [offre |-> python_scalar(j.v.offre), remise |-> python_scalar(j.v.remise)]

python_lead_info(j) ==
    [ name        |-> python_scalar(j.v.name),
      sector      |-> python_scalar(j.v.sector),
      pain_points |-> [i \in 1..Len(j.v.pain_points.v) |-> python_scalar(j.v.pain_points.v[i])] ]

json_load(j) ==
    [ messages           |-> [i \in 1..Len(j.v.messages.v) |-> python_message(j.v.messages.v[i])],
      current_message    |-> python_scalar(j.v.current_message),
      lead_info          |-> python_lead_info(j.v.lead_info),
      lead_type          |-> python_scalar(j.v.lead_type),
      lead_score         |-> python_scalar(j.v.lead_score),
      current_agent      |-> python_scalar(j.v.current_agent),
      last_agent         |-> python_scalar(j.v.last_agent),
      offers_made        |-> [i \in 1..Len(j.v.offers_made.v) |-> python_offer(j.v.offers_made.v[i])],
      current_offer      |-> IF j.v.current_offer.t = "null" THEN Nothing
                             ELSE Some(python_offer(j.v.current_offer)),
      objections         |-> [i \in 1..Len(j.v.objections.v) |-> python_scalar(j.v.objections.v[i])],
      objections_handled |-> [i \in 1..Len(j.v.objections_handled.v) |-> python_scalar(j.v.objections_handled.v[i])],
      negotiation_count  |-> python_scalar(j.v.negotiation_count),
      qualified          |-> python_scalar(j.v.qualified),
      converted          |-> python_scalar(j.v.converted),
      escalated          |-> python_scalar(j.v.escalated),
      closed             |-> python_scalar(j.v.closed),
      session_id         |-> python_scalar(j.v.session_id),
      context            |-> python_scalar(j.v.context),
      next_action        |-> python_scalar(j.v.next_action),
      crm_synced         |-> python_scalar(j.v.crm_synced),
      key_insights       |-> [i \in 1..Len(j.v.key_insights.v) |-> python_scalar(j.v.key_insights.v[i])],
      sentiment          |-> python_scalar(j.v.sentiment) ]

\* variant: the session is written under every id
save_session_under_every_id(sessions, session_id, state) ==
    [id \in DOMAIN sessions |-> Some(state)]

\* save_session of the deployment's backend.  InMemoryStore records the
\* caller's dict; JSONFileStore records what json.load reads back from the
\* file that json.dump wrote.
save_session(sessions, session_id, state) ==
    [sessions EXCEPT ![session_id] =
        Some(IF backend = "JSONFileStore" THEN json_load(json_dump(state))
             ELSE state)]

\* f"{self.base_path}/sessions/{session_id}.json"
session_file(session_id) == session_id

SessionFiles == {session_file(id) : id \in SessionIds}

\* InMemoryStore.load_session: the stored dict itself, as it is now
InMemoryStore_load_session(session_id) ==
    IF mem_sessions[session_id] = Nothing THEN Nothing
    ELSE Some(heap[mem_sessions[session_id][1]])

\* JSONFileStore.load_session: a dict read from the file, None if no file
JSONFileStore_load_session(session_id) ==
    IF files[session_file(session_id)] = Nothing THEN Nothing
    ELSE Some(json_load(files[session_file(session_id)][1].state))

StorageInit ==
    /\ heap = <<>>
    /\ mem_sessions = [id \in SessionIds |-> Nothing]
    /\ files = [f \in SessionFiles |-> Nothing]
    /\ held = [mem |-> Nothing, file |-> Nothing]
    /\ saved = [id \in SessionIds |->
                  [mem |-> Nothing, file |-> Nothing]]

(***************************************************************************)
(* Dispatcher (src/orchestrator.py).                                       *)
(***************************************************************************)
\* variant: the conversion test without the offers_made guard
conversion_without_offer(state) == check_for_conversion(state)

\* the conversion test of _mcp_decision_node: only after an offer was made
conversion_detected(state) ==
    state.offers_made # <<>> /\ check_for_conversion(state)

\* variant: a lead seeded with contact data skips the first classification
needs_classification_unless_seeded(state) ==
    state.lead_type = None /\ state.lead_info.name = None

\* first interaction: not state.get("lead_type")
needs_classification(state) == state.lead_type = None

\* variant: the escalated flag is not looked at
escalation_ignored(state) == FALSE

\* state.get("escalated", False)
escalation_pending(state) == state.escalated

\* variant: the closed test is missing
conversation_closed_ignored(state) == FALSE

\* if state.get("closed", False)
conversation_closed(state) == state.closed

mcp_decision_node(state) ==
    IF needs_classification(state)
    THEN [state EXCEPT !.next_action = "classifier",
                       !.context = "initial_classification"]
    ELSE IF conversation_closed(state)
    THEN [state EXCEPT !.next_action = "end"]
    ELSE IF state.next_action = "crm" \/ state.next_action = "end"
    THEN state
    ELSE IF conversion_detected(state)
    THEN [state EXCEPT !.converted = TRUE, !.next_action = "crm"]
    ELSE IF escalation_pending(state)
    THEN [state EXCEPT !.next_action = "crm"]
    ELSE IF state.next_action = None \/ state.next_action = "wait_for_response"
    THEN [state EXCEPT !.next_action = "supervisor"]
    ELSE state

RoleNodes == {"classifier", "seller", "negotiator", "supervisor", "crm"}

route_from_mcp(state) ==
    IF state.next_action \in RoleNodes THEN state.next_action ELSE "end"

\* messages a prospect sends: one that matches a conversion phrase, one that
\* matches none
ProspectMessages == { <<"O", "k">>, <<"n", "o", "n">> }

Pending == [kind |-> "pending", state |-> Nothing]
ReturnedState(state) == [kind |-> "state", state |-> Some(state)]
\* variant: the exception is swallowed
Error_swallowed(exc) == [kind |-> "pending", state |-> Nothing]

Error(exc) == [kind |-> exc, state |-> Nothing]

\* graph.invoke reached END: the call returns final_state; the web handlers
\* (create_prospect, send_message) then save it, main.py does not
\* how a save_session call ends: InMemoryStore assigns into a dict;
\* JSONFileStore opens the session file for writing, which the file system
\* may refuse (OSError) before anything is written
save_outcomes ==
    IF backend = "JSONFileStore" THEN {"saved", "OSError"} ELSE {"saved"}

\* variant: a failed save is ignored and the state handed back
call_result_ignoring_save(state, caller_save) == ReturnedState(state)

\* what the caller ends with: the final state, or the exception raised by
\* the save it makes after the call
call_result(state, caller_save) ==
    IF caller_save = "saved" THEN ReturnedState(state) ELSE Error(caller_save)

call_returns(state, caller_save) ==
    /\ result' = call_result(state, caller_save)
    /\ st' = Nothing
    /\ pc' = "idle"

caller_saves(sessions, state) ==
    IF deploy = "web" THEN save_session(sessions, state.session_id, state)
                      ELSE sessions

\* an exception leaves graph.invoke: no state is returned and nothing saved
call_raises(exc) ==
    /\ result' = Error(exc)
    /\ st' = Nothing
    /\ pc' = "idle"

RunConversation(session_id, initial_message, lead_info) ==
    /\ pc = "idle"
    /\ calls < MaxCalls
    /\ session_id \notin started
    /\ deploy = "cli" => lead_info.name = None
    /\ LET s0 == create_initial_state(initial_message, session_id)
           s1 == [s0 EXCEPT !.lead_info = seed_lead_info(@, lead_info)]
       IN st' = Some(add_message(s1, "user", initial_message))
    /\ pc' = "mcp_decision"
    /\ steps' = 0
    /\ invoked' = <<>>
    /\ llm_calls' = 0
    /\ result' = Pending
    /\ calls' = calls + 1
    /\ started' = started \cup {session_id}
    /\ last' = "run_conversation"
    /\ UNCHANGED <<deploy, store, insights, msg>>
    /\ UNCHANGED <<storage_vars, requests>>

\* variant: the stored next_action is kept
continue_update_keeping_next_action(state, new_message) ==
    add_message([state EXCEPT !.current_message = new_message],
                "user", new_message)

continue_update(state, new_message) ==
    [add_message([state EXCEPT !.current_message = new_message],
                 "user", new_message)
       EXCEPT !.next_action = None]

ContinueConversation(session_id, new_message) ==
    /\ pc = "idle"
    /\ calls < MaxCalls
    /\ calls' = calls + 1
    /\ IF load_session(store, session_id) = Nothing
       THEN /\ result' = Error("ValueError")
            /\ last' = "continue_conversation:not_found"
            /\ UNCHANGED <<store, st, pc, steps, invoked, llm_calls>>
       ELSE LET state == continue_update(load_session(store, session_id)[1],
                                         new_message)
            IN /\ st' = Some(state)
               /\ store' = IF backend = "InMemoryStore"
                           THEN save_session(store, session_id, state)
                           ELSE store
               /\ pc' = "mcp_decision"
               /\ steps' = 0
               /\ invoked' = <<>>
               /\ llm_calls' = 0
               /\ result' = Pending
               /\ last' = "continue_conversation"
    /\ UNCHANGED <<deploy, insights, started, msg>>
    /\ UNCHANGED <<storage_vars, requests>>

McpDecision ==
    /\ pc = "mcp_decision"
    /\ steps < RecursionLimit
    /\ LET state == mcp_decision_node(st[1])
           route == route_from_mcp(state)
       IN IF route = "end"
          THEN \E caller_save \in save_outcomes :
                 /\ call_returns(state, caller_save)
                 /\ store' = IF caller_save = "saved"
                             THEN caller_saves(store, state) ELSE store
                 /\ last' = IF caller_save = "saved" THEN "mcp_decision:end"
                            ELSE "mcp_decision:save_failed"
          ELSE /\ st' = Some(state)
               /\ pc' = route
               /\ last' = "mcp_decision"
               /\ UNCHANGED <<store, result>>
    /\ steps' = steps + 1
    /\ UNCHANGED <<deploy, insights, calls, started, invoked, llm_calls,
                   msg>>
    /\ UNCHANGED <<storage_vars, requests>>

\* a role node ran process(): its state goes back to mcp_decision, or its
\* exception ends the run
role_step(role, out, label) ==
    /\ IF out.raised = None
       THEN /\ st' = Some(out.state)
            /\ pc' = "mcp_decision"
            /\ UNCHANGED result
       ELSE call_raises(out.raised)
    /\ steps' = steps + 1
    /\ invoked' = Append(invoked, role)
    /\ llm_calls' = llm_calls + (IF out.called THEN 1 ELSE 0)
    /\ last' = label
    /\ UNCHANGED <<deploy, store, insights, calls, started, msg>>
    /\ UNCHANGED <<storage_vars, requests>>

ClassifierNode ==
    /\ pc = "classifier"
    /\ steps < RecursionLimit
    /\ \E reply \in ClassifierReplies :
          role_step("classifier", classifier_process(st[1], reply),
                    IF reply.ok THEN "classifier:parsed"
                                ELSE "classifier:parse_failed")

SellerNode ==
    /\ pc = "seller"
    /\ steps < RecursionLimit
    /\ \E reply \in SellerReplies :
          role_step("seller", seller_process(st[1], reply),
                    IF reply.ok THEN "seller:parsed" ELSE "seller:parse_failed")

NegotiatorNode ==
    /\ pc = "negotiator"
    /\ steps < RecursionLimit
    /\ \E reply \in NegotiatorReplies :
          role_step("negotiator", negotiator_process(st[1], reply),
                    IF negotiator_limit_reached(st[1]) THEN "negotiator:limit"
                    ELSE IF reply.ok THEN "negotiator:parsed"
                    ELSE "negotiator:parse_failed")

SupervisorNode ==
    /\ pc = "supervisor"
    /\ steps < RecursionLimit
    /\ \E reply \in SupervisorReplies :
          role_step("supervisor", supervisor_process(st[1], reply),
                    IF reply.ok THEN "supervisor:parsed"
                                ELSE "supervisor:parse_failed")

\* _crm_node: the CRM role, then save_session and save_insight; crm -> END
CrmNode ==
    /\ pc = "crm"
    /\ steps < RecursionLimit
    /\ LET state == crm_process(st[1])
       IN \E node_save \in save_outcomes, caller_save \in save_outcomes :
            IF node_save # "saved"
            \* self.memory.save_session raises inside the node
            THEN /\ caller_save = "saved"
                 /\ call_raises(node_save)
                 /\ last' = "crm:save_failed"
                 /\ UNCHANGED <<store, insights>>
            ELSE /\ call_returns(state, caller_save)
                 /\ store' = IF caller_save = "saved"
                             THEN caller_saves(save_session(store, state.session_id,
                                                            state), state)
                             ELSE save_session(store, state.session_id, state)
                 /\ insights' = save_insights(insights, state)
                 /\ last' = IF caller_save = "saved" THEN "crm"
                            ELSE "crm:save_failed"
    /\ steps' = steps + 1
    /\ invoked' = Append(invoked, "crm")
    /\ UNCHANGED <<deploy, calls, started, llm_calls, msg>>
    /\ UNCHANGED <<storage_vars, requests>>

\* the run used up its supersteps without reaching END
\* variant: only the assistant's messages are returned
get_conversation_history_assistant_only(sessions, session_id) ==
    LET state == load_session(sessions, session_id)
    IN IF state = Nothing THEN <<>>
       ELSE SelectSeq(state[1].messages, LAMBDA m : m.role = "assistant")

get_conversation_history(sessions, session_id) ==
    LET state == load_session(sessions, session_id)
    IN IF state = Nothing THEN <<>> ELSE state[1].messages

GetConversationHistory(session_id) ==
    /\ pc = "idle"
    /\ calls < MaxCalls
    /\ calls' = calls + 1
    /\ result' = [kind |-> "history", state |-> Nothing,
                  messages |-> get_conversation_history(store, session_id)]
    /\ last' = "get_conversation_history"
    /\ UNCHANGED <<deploy, store, insights, st, pc, steps, started, invoked,
                   llm_calls, msg>>
    /\ UNCHANGED <<storage_vars, requests>>

RecursionLimitExceeded ==
    /\ pc # "idle"
    /\ steps >= RecursionLimit
    /\ call_raises("GraphRecursionError")
    /\ last' = "recursion_limit"
    /\ UNCHANGED <<deploy, store, insights, steps, calls, started, invoked,
                   llm_calls, msg>>
    /\ UNCHANGED <<storage_vars, requests>>

(***************************************************************************)
(* graph.invoke as a function of the replies the completion service gives, *)
(* one per role invocation.  It rebuilds the sessions a JSONFileStore      *)
(* directory holds from earlier runs of the web application.               *)
(***************************************************************************)
RECURSIVE graph_invoke(_, _)
graph_invoke(state, replies) ==
    LET s     == mcp_decision_node(state)
        route == route_from_mcp(s)
    IN IF route = "end" THEN s
       ELSE IF route = "crm" THEN crm_process(s)
       ELSE IF replies = <<>> THEN s
       ELSE LET out == CASE route = "classifier" ->
                                classifier_process(s, Head(replies))
                         [] route = "seller" ->
                                seller_process(s, Head(replies))
                         [] route = "negotiator" ->
                                negotiator_process(s, Head(replies))
                         [] route = "supervisor" ->
                                supervisor_process(s, Head(replies))
            IN graph_invoke(out.state, Tail(replies))

HotLeadReply ==
    [ ok |-> TRUE, lead_type |-> "chaud", lead_score |-> Some(40),
      sector |-> "tech", pain_points |-> Some(<<"shadow_ia">>),
      key_insights |-> Some(<<"insight">>) ]
OfferReply == [ok |-> TRUE, remise |-> Nothing]
RouteReply(next_agent) ==
    [ ok |-> TRUE, goal_achieved |-> FALSE, should_close |-> FALSE,
      should_escalate |-> FALSE, next_agent |-> next_agent,
      prospect_sentiment |-> Some("positif") ]
CounterReply ==
    [ ok |-> TRUE, objection_summary |-> Nothing, adjusted_offer |-> Nothing,
      should_escalate |-> FALSE ]

\* saved after the first run: classified, one offer made, left open
RECURSIVE PersistedOpen(_)
PersistedOpen(rounds) ==
    IF rounds = 0
    THEN graph_invoke(
           add_message(create_initial_state(<<"n", "o", "n">>, "s1"),
                       "user", <<"n", "o", "n">>),
           <<HotLeadReply, OfferReply, RouteReply("end")>>)
    \* saved after one more message and one more negotiation round
    ELSE graph_invoke(
           continue_update(PersistedOpen(rounds - 1), <<"n", "o", "n">>),
           <<RouteReply("negotiator"), CounterReply, RouteReply("end")>>)

\* saved after the prospect accepted the offer: converted and closed
PersistedClosed == graph_invoke(continue_update(PersistedOpen(0), <<"O", "k">>), <<>>)

ColdLeadReply == [HotLeadReply EXCEPT !.lead_score = Some(39)]

\* saved after the first run of an unqualified lead: classified, no offer
PersistedNurtured ==
    graph_invoke(
      add_message(create_initial_state(<<"n", "o", "n">>, "s1"),
                  "user", <<"n", "o", "n">>),
      <<ColdLeadReply>>)

PersistedSessions ==
    {PersistedOpen(n) : n \in 0..MaxNegotiations}
        \cup {PersistedClosed, PersistedNurtured}

Init ==
    /\ deploy \in {"cli", "web"}
    /\ \E known \in {Nothing} \cup {Some(s) : s \in PersistedSessions} :
          /\ deploy = "cli" => known = Nothing
          /\ store = [id \in SessionIds |-> IF id = "s1" THEN known ELSE Nothing]
          /\ insights = IF known # Nothing /\ known[1].closed
                        THEN save_insights(<<>>, known[1]) ELSE <<>>
    /\ st = Nothing
    /\ pc = "idle"
    /\ steps = 0
    /\ result = Pending
    /\ calls = 0
    /\ started = {}
    /\ invoked = <<>>
    /\ llm_calls = 0
    /\ last = "init"
    /\ msg = <<>>
    /\ StorageInit
    /\ requests = [id \in SessionIds |-> Nothing]

Next ==
    \/ \E id \in NewSessionIds, m \in ProspectMessages, seed \in LeadInfoSeeds :
          RunConversation(id, m, seed)
    \/ \E id \in SessionIds, m \in ProspectMessages :
          ContinueConversation(id, m)
    \/ McpDecision
    \/ ClassifierNode
    \/ SellerNode
    \/ NegotiatorNode
    \/ SupervisorNode
    \/ CrmNode
    \/ RecursionLimitExceeded
    \/ \E id \in SessionIds : GetConversationHistory(id)

Spec == Init /\ [][Next]_vars

(***************************************************************************)
(* _check_for_conversion on its own: every message over a small alphabet   *)
(* is handed to it once.                                                   *)
(***************************************************************************)
ConvAlphabet == {"y", "e", "s", "o", "k", "O", "K", "t", " "}

RECURSIVE TextsUpTo(_)
TextsUpTo(n) ==
    IF n = 0 THEN {<<>>}
    ELSE LET shorter == TextsUpTo(n - 1)
         IN shorter \cup {Append(t, c) : t \in shorter, c \in ConvAlphabet}

InitConv ==
    /\ msg \in TextsUpTo(MaxMsgLen)
    /\ deploy = "cli"
    /\ store = [id \in SessionIds |-> Nothing]
    /\ insights = <<>>
    /\ st = Nothing
    /\ pc = "check_for_conversion"
    /\ steps = 0
    /\ result = Pending
    /\ calls = 0
    /\ started = {}
    /\ invoked = <<>>
    /\ llm_calls = 0
    /\ last = "init"
    /\ StorageInit
    /\ requests = [id \in SessionIds |-> Nothing]

CheckForConversion ==
    /\ pc = "check_for_conversion"
    /\ result' = [kind |-> IF check_for_conversion(create_initial_state(msg, "s2"))
                           THEN "conversion" ELSE "no_conversion",
                  state |-> Nothing]
    /\ pc' = "idle"
    /\ last' = "check_for_conversion"
    /\ UNCHANGED <<deploy, store, insights, st, steps, calls, started, invoked,
                   llm_calls, msg>>
    /\ UNCHANGED <<storage_vars, requests>>

NextConv == CheckForConversion

SpecConv == InitConv /\ [][NextConv]_vars

(***************************************************************************)
(* The Session Store on its own: one caller runs the same sequence of      *)
(* operations against an InMemoryStore and a JSONFileStore, side by side.  *)
(* It creates states, changes the dict it holds, saves it and loads.       *)
(***************************************************************************)
InitStore ==
    /\ StorageInit
    /\ requests = [id \in SessionIds |-> Nothing]
    /\ deploy = "cli"
    /\ store = [id \in SessionIds |-> Nothing]
    /\ insights = <<>>
    /\ st = Nothing
    /\ pc = "caller"
    /\ steps = 0
    /\ result = Pending
    /\ calls = 0
    /\ started = {}
    /\ invoked = <<>>
    /\ llm_calls = 0
    /\ last = "init"
    /\ msg = <<>>

store_frame ==
    UNCHANGED <<requests, deploy, store, insights, st, pc, steps, started, invoked,
                llm_calls, last, msg>>

\* the caller builds a new state dict
CallerCreates(session_id, initial_message) ==
    /\ Len(heap) < MaxObjects
    /\ LET state == create_initial_state(initial_message, session_id)
       IN /\ heap' = Append(heap, state)
          /\ held' = [mem |-> Some(Len(heap) + 1), file |-> Some(state)]
    /\ store_frame
    /\ UNCHANGED <<mem_sessions, files, saved, result, calls>>

\* the caller changed the dict it holds: on the InMemoryStore side that dict
\* may be one the store holds too
caller_mutates(on_mem, on_file) ==
    /\ heap' = [heap EXCEPT ![held.mem[1]] = on_mem]
    /\ held' = [held EXCEPT !.file = Some(on_file)]
    /\ store_frame
    /\ UNCHANGED <<mem_sessions, files, saved, result>>

\* sample_state["lead_score"] = 99.0
CallerSetsScore ==
    /\ held.mem # Nothing
    /\ heap[held.mem[1]].lead_score # 99
    /\ caller_mutates([heap[held.mem[1]] EXCEPT !.lead_score = 99],
                      [held.file[1] EXCEPT !.lead_score = 99])
    /\ UNCHANGED calls

\* what continue_conversation does to the dict load_session gave it
CallerContinues(new_message) ==
    /\ held.mem # Nothing
    /\ calls < MaxCalls
    /\ calls' = calls + 1
    /\ caller_mutates(continue_update(heap[held.mem[1]], new_message),
                      continue_update(held.file[1], new_message))

SaveSession(session_id) ==
    /\ held.mem # Nothing
    /\ mem_sessions' = [mem_sessions EXCEPT ![session_id] = held.mem]
    /\ files' = [files EXCEPT ![session_file(session_id)] =
                    Some([state |-> json_dump(held.file[1]),
                          updated_at |-> "now"])]
    /\ saved' = [saved EXCEPT ![session_id] =
                    [mem |-> Some(heap[held.mem[1]]), file |-> held.file]]
    /\ store_frame
    /\ UNCHANGED <<heap, held, result, calls>>

LoadSession(session_id) ==
    /\ pc = "caller"
    /\ result' = [kind |-> "load", session_id |-> session_id,
                  mem  |-> InMemoryStore_load_session(session_id),
                  file |-> JSONFileStore_load_session(session_id)]
    /\ held' = [mem  |-> IF mem_sessions[session_id] # Nothing
                         THEN mem_sessions[session_id] ELSE held.mem,
                file |-> IF JSONFileStore_load_session(session_id) # Nothing
                         THEN JSONFileStore_load_session(session_id)
                         ELSE held.file]
    /\ store_frame
    /\ UNCHANGED <<heap, mem_sessions, files, saved, calls>>

NextStore ==
    \/ \E id \in SessionIds : CallerCreates(id, <<"n", "o", "n">>)
    \/ CallerSetsScore
    \/ CallerContinues(<<"O", "k">>)
    \/ \E id \in SessionIds : SaveSession(id)
    \/ \E id \in SessionIds : LoadSession(id)

SpecStore == InitStore /\ [][NextStore]_vars

(***************************************************************************)
(* Two request handlers of the web application in flight at once, on one   *)
(* orchestrator and one JSONFileStore.  Each handler (create_prospect for  *)
(* a new session, send_message for a stored one) has its own state dict;   *)
(* the agents keep nothing between calls, so the store and the insight log *)
(* are all the two share.  The handlers are interleaved node by node.      *)
(***************************************************************************)
Request(state) ==
    [ st |-> state, entry |-> state, pc |-> "mcp_decision", steps |-> 0,
      replies |-> <<>>, result |-> Pending ]

request_done(r, state, outcome) ==
    [r EXCEPT !.st = state, !.pc = "done", !.result = outcome]

\* the completions the concurrent handlers receive: for each role a parsed
\* reply of each routing outcome and a malformed one
RepliesOf(role) ==
    CASE role = "classifier" -> {HotLeadReply, ColdLeadReply, Malformed}
      [] role = "seller"     -> {OfferReply, Malformed}
      [] role = "negotiator" ->
           {CounterReply, [CounterReply EXCEPT !.should_escalate = TRUE],
            Malformed}
      [] role = "supervisor" ->
           {RouteReply("negotiator"), RouteReply("end"), Malformed}

role_process(role, state, reply) ==
    CASE role = "classifier" -> classifier_process(state, reply)
      [] role = "seller"     -> seller_process(state, reply)
      [] role = "negotiator" -> negotiator_process(state, reply)
      [] role = "supervisor" -> supervisor_process(state, reply)

InitPar ==
    /\ deploy = "web"
    /\ store = [id \in SessionIds |->
                  IF id = "s1" THEN Some(PersistedOpen(0)) ELSE Nothing]
    /\ insights = <<>>
    /\ st = Nothing
    /\ pc = "handlers"
    /\ steps = 0
    /\ result = Pending
    /\ calls = 0
    /\ started = {}
    /\ invoked = <<>>
    /\ llm_calls = 0
    /\ last = "init"
    /\ msg = <<>>
    /\ StorageInit
    /\ requests = [id \in SessionIds |-> Nothing]

par_frame ==
    /\ UNCHANGED <<deploy, st, pc, steps, result, calls, invoked, llm_calls,
                   last, msg>>
    /\ UNCHANGED storage_vars

\* create_prospect (session not stored) or send_message (stored) reaches
\* graph.invoke
HandlerStarts(session_id, message) ==
    /\ pc = "handlers"
    /\ session_id \notin started
    /\ started' = started \cup {session_id}
    /\ LET known == load_session(store, session_id)
           state == IF known = Nothing
                    THEN add_message(create_initial_state(message, session_id),
                                     "user", message)
                    ELSE continue_update(known[1], message)
       IN requests' = [requests EXCEPT ![session_id] = Some(Request(state))]
    /\ UNCHANGED <<store, insights>>
    /\ par_frame

\* the handler's run executes its next node, or returns to the handler
HandlerSteps(session_id) ==
    /\ pc = "handlers"
    /\ requests[session_id] # Nothing
    /\ requests[session_id][1].pc # "done"
    /\ LET r == requests[session_id][1]
           becomes(next) ==
               requests' = [requests EXCEPT ![session_id] = Some(next)]
       IN IF r.steps >= RecursionLimit
          THEN /\ becomes(request_done(r, r.st, Error("GraphRecursionError")))
               /\ UNCHANGED <<store, insights>>
          ELSE IF r.pc = "mcp_decision"
          THEN LET state == mcp_decision_node(r.st)
                   route == route_from_mcp(state)
               IN IF route = "end"
                  THEN \E caller_save \in save_outcomes :
                         /\ becomes(request_done(r, state,
                                                 call_result(state, caller_save)))
                         /\ store' = IF caller_save = "saved"
                                     THEN save_session(store, session_id, state)
                                     ELSE store
                         /\ UNCHANGED insights
                  ELSE /\ becomes([r EXCEPT !.st = state, !.pc = route,
                                            !.steps = @ + 1])
                       /\ UNCHANGED <<store, insights>>
          ELSE IF r.pc = "crm"
          THEN LET state == crm_process(r.st)
               IN \E node_save \in save_outcomes, caller_save \in save_outcomes :
                    IF node_save # "saved"
                    THEN /\ caller_save = "saved"
                         /\ becomes(request_done(r, state, Error(node_save)))
                         /\ UNCHANGED <<store, insights>>
                    ELSE /\ becomes(request_done(r, state,
                                                 call_result(state, caller_save)))
                         /\ store' = save_session(store, state.session_id, state)
                         /\ insights' = save_insights(insights, state)
          ELSE \E reply \in RepliesOf(r.pc) :
                 LET out == role_process(r.pc, r.st, reply)
                 IN /\ IF out.raised = None
                       THEN becomes([r EXCEPT !.st = out.state,
                                              !.pc = "mcp_decision",
                                              !.steps = @ + 1,
                                              !.replies = Append(@, reply)])
                       ELSE becomes(request_done(r, r.st, Error(out.raised)))
                    /\ UNCHANGED <<store, insights>>
    /\ UNCHANGED started
    /\ par_frame

NextPar ==
    \/ \E id \in SessionIds, m \in ProspectMessages : HandlerStarts(id, m)
    \/ \E id \in SessionIds : HandlerSteps(id)

SpecPar == InitPar /\ [][NextPar]_vars

(***************************************************************************)
(* Properties.                                                             *)
(***************************************************************************)
\* every session state the model holds: in flight, returned, stored
SessionStates ==
    {s \in UNION {{st}, {result.state}, {store[id] : id \in SessionIds}} :
        s # Nothing}

\* the step just taken was an invocation of this role's process()
Invokes(role) == pc = role /\ invoked' = Append(invoked, role)

\* C1: when NegotiatorAgent.process is entered with negotiation_count >= 3 it
\* calls no completion service, sets escalated, appends exactly the fixed
\* escalation message and leaves negotiation_count, offers_made and
\* objections as they were.
C1_NegotiatorRefusesAtLimit ==
    [][ (Invokes("negotiator") /\ st[1].negotiation_count >= 3)
        => /\ llm_calls' = llm_calls
           /\ st' # Nothing
           /\ st'[1].escalated
           /\ st'[1].messages =
                 Append(st[1].messages,
                        Message("assistant", <<"ESCALATION">>, "negotiator",
                                "escalate"))
           /\ st'[1].negotiation_count = st[1].negotiation_count
           /\ st'[1].offers_made = st[1].offers_made
           /\ st'[1].objections = st[1].objections ]_vars

C1_Witness ==
    /\ last = "negotiator:limit"
    /\ st # Nothing
    /\ st[1].negotiation_count >= 3
    /\ st[1].escalated
    /\ llm_calls = 1

\* C2: the Dispatcher never routes to the Negotiator node once
\* negotiation_count >= 3.
C2_NegotiatorNeverRoutedAtLimit ==
    pc = "negotiator" => st[1].negotiation_count < 3

\* C3: whenever run_conversation or continue_conversation has returned a
\* state, the Session Store holds that state under its session_id.
C3_ReturnedStateIsStored ==
    (pc = "idle" /\ result.kind = "state")
        => store[result.state[1].session_id] = result.state

\* C4: every run of the graph ends by returning a state that is suspended
\* (next_action = wait_for_response) or closed; it ends in no error and in no
\* other next_action.
C4_RunEndsSuspendedOrClosed ==
    (pc = "idle"
     /\ result.kind \notin {"pending", "ValueError", "OSError", "history"})
        => /\ result.kind = "state"
           /\ \/ result.state[1].closed
              \/ result.state[1].next_action = "wait_for_response"

\* C5: once a role has left next_action = wait_for_response, the run hands
\* the state back to the caller with next_action = wait_for_response and
\* invokes no further role.
C5_WaitForResponseSuspends ==
    [][ (pc = "mcp_decision" /\ invoked # <<>>
         /\ st[1].next_action = "wait_for_response")
        => /\ pc' = "idle"
           /\ result'.kind = "state"
           /\ result'.state[1].next_action = "wait_for_response" ]_vars

\* C6: a stored session that is closed never changes again.
C6_ClosedStateFrozen ==
    [][ \A id \in SessionIds :
          (store[id] # Nothing /\ store[id][1].closed)
              => store'[id] = store[id] ]_vars

\* C7: within a session no status flag goes from true to false.
C7_FlagsMonotonic ==
    [][ (st # Nothing /\ st' # Nothing)
        => /\ st[1].qualified  => st'[1].qualified
           /\ st[1].converted  => st'[1].converted
           /\ st[1].escalated  => st'[1].escalated
           /\ st[1].closed     => st'[1].closed
           /\ st[1].crm_synced => st'[1].crm_synced ]_vars

\* C8: negotiation_count changes only in a Negotiator turn and then grows by
\* exactly 1: no other node changes it, continue_conversation starts the run
\* with the stored value, and a save never lowers the stored value.
C8_NegotiationCountStepsByOne ==
    [][ /\ (st # Nothing /\ st' # Nothing)
           => \/ st'[1].negotiation_count = st[1].negotiation_count
              \/ /\ Invokes("negotiator")
                 /\ st'[1].negotiation_count = st[1].negotiation_count + 1
        /\ (st = Nothing /\ st' # Nothing /\ last' = "continue_conversation")
           => st'[1].negotiation_count =
                 store[st'[1].session_id][1].negotiation_count
        /\ (st # Nothing /\ result'.kind = "state")
           => result'.state[1].negotiation_count = st[1].negotiation_count
        /\ \A id \in SessionIds :
              (store[id] # Nothing)
                 => /\ store'[id] # Nothing
                    /\ store'[id][1].negotiation_count
                          >= store[id][1].negotiation_count ]_vars

C8_Witness ==
    /\ last = "negotiator:parsed"
    /\ st # Nothing
    /\ st[1].negotiation_count = 3

\* C9: converted is never true while offers_made is empty.
C9_ConvertedOnlyAfterOffer ==
    \A s \in SessionStates : s[1].converted => s[1].offers_made # <<>>

\* an affirmative message met the dispatcher's conversion test with no offer
\* made, and the session was routed on unconverted
C9_Witness ==
    /\ pc = "seller"
    /\ last = "mcp_decision"
    /\ check_for_conversion(st[1])
    /\ st[1].offers_made = <<>>
    /\ ~st[1].converted

\* keyword k occurs in s as a whole word
whole_word_at(k, s, i) ==
    /\ occurs_at(k, s, i)
    /\ word_boundary_at(s, i - 1)
    /\ word_boundary_at(s, i + Len(k) - 1)

whole_word_match(s) ==
    \E n \in 1..Len(conversion_keywords), i \in 1..Len(s) :
        whole_word_at(conversion_keywords[n].pattern, lower(s), i)

\* C10: _check_for_conversion answers true exactly when some keyword occurs
\* in the message as a whole word, in any letter case.
C10_ConversionWordBoundarySafe ==
    (pc = "idle" /\ last = "check_for_conversion")
        => (result.kind = "conversion" <=> whole_word_match(msg))

\* C11: a run started by continue_conversation on an open, classified session
\* with an offer made and a message holding a conversion phrase goes straight
\* to the CRM node with converted set, and returns converted and closed
\* having invoked the CRM role alone.
C11_AcceptanceGoesToCrm ==
    [][ /\ ( /\ last = "continue_conversation"
             /\ pc = "mcp_decision"
             /\ st[1].lead_type # None
             /\ ~st[1].closed
             /\ st[1].offers_made # <<>>
             /\ whole_word_match(st[1].current_message) )
           => (pc' = "crm" /\ st'[1].converted /\ invoked' = <<>>)
        /\ ( /\ pc = "crm" /\ invoked = <<>> /\ st[1].converted /\ pc' = "idle"
             /\ result'.kind # "OSError" )
           => /\ result'.kind = "state"
              /\ result'.state[1].converted
              /\ result'.state[1].closed
              /\ invoked' = <<"crm">> ]_vars

C11_Witness ==
    /\ last = "crm"
    /\ invoked = <<"crm">>
    /\ result.kind = "state"
    /\ result.state[1].converted
    /\ result.state[1].closed
    /\ result.state[1].current_message = <<"O", "k">>
    /\ result.state[1].negotiation_count = 1

C13_ShouldEscalateEscalates ==
    [][ /\ \A reply \in SupervisorReplies :
             ( /\ reply.ok
               /\ reply.should_escalate
               /\ Invokes("supervisor")
               /\ st' = Some(supervisor_process(st[1], reply).state) )
             => st'[1].escalated
        /\ \A reply \in NegotiatorReplies :
             ( /\ reply.ok
               /\ reply.should_escalate
               /\ Invokes("negotiator")
               /\ st' = Some(negotiator_process(st[1], reply).state) )
             => st'[1].escalated ]_vars

\* C14: continue_conversation on a session id the store does not hold fails
\* with ValueError, invokes no role and leaves the store as it was.
C14_ContinueUnknownSession ==
    [][ \A id \in SessionIds, m \in ProspectMessages :
          (store[id] = Nothing /\ ContinueConversation(id, m))
             => /\ result'.kind = "ValueError"
                /\ store' = store
                /\ st' = Nothing
                /\ pc' = "idle"
                /\ invoked' = invoked ]_vars

C14_Witness ==
    /\ last = "continue_conversation:not_found"
    /\ result.kind = "ValueError"
    /\ pc = "idle"
    /\ invoked = <<>>
    /\ \A id \in SessionIds : store[id] = Nothing

\* C15: after a Classifier turn whose output could not be parsed the state
\* has qualified = false and lead_score = 0 and the dispatcher's next
\* decision is the Seller.
C15_ClassifierFailureGoesToSeller ==
    [][ ( /\ pc = "mcp_decision" /\ steps' = steps + 1
          /\ last = "classifier:parse_failed" )
        => /\ ~st[1].qualified
           /\ st[1].lead_score = 0
           /\ pc' = "seller" ]_vars

\* C16: after a parsed classification that leaves the lead classified and
\* unqualified, the dispatcher's next decision is the Seller.
C16_UnqualifiedGoesToSeller ==
    [][ ( /\ pc = "mcp_decision" /\ steps' = steps + 1
          /\ last = "classifier:parsed"
          /\ st[1].lead_type # None
          /\ ~st[1].qualified )
        => pc' = "seller" ]_vars

\* C17: a Classifier turn keeps every lead_info value that was known before
\* it and that the classification omits.
C17_LeadInfoMergeKeepsKnownValues ==
    [][ \A reply \in ClassifierReplies :
          ( /\ reply.ok
            /\ Invokes("classifier")
            /\ st' = Some(classifier_process(st[1], reply).state) )
          => /\ st'[1].lead_info.name = st[1].lead_info.name
             /\ (reply.sector = None /\ st[1].lead_info.sector # None)
                  => st'[1].lead_info.sector = st[1].lead_info.sector
             /\ (reply.pain_points = Nothing /\ st[1].lead_info.pain_points # <<>>)
                  => st'[1].lead_info.pain_points = st[1].lead_info.pain_points
      ]_vars

\* C18: the first decision of run_conversation is the Classifier, and neither
\* the Seller nor the Negotiator node is entered while lead_type is unset.
C18_ClassificationPrecedesSelling ==
    [][ /\ (last = "run_conversation" /\ pc = "mcp_decision" /\ steps' = steps + 1)
           => pc' = "classifier"
        /\ (pc' \in {"seller", "negotiator"})
           => st'[1].lead_type # None ]_vars

C18_Witness ==
    /\ pc = "seller"
    /\ st[1].session_id = "s2"
    /\ st[1].lead_type # None
    /\ invoked = <<"classifier">>

\* C19: for both backends load_session gives None for an id never saved and
\* otherwise a state equal to the one passed to the most recent save_session
\* under that id, and save_session under one id changes no other id's
\* load_session.
C19_StoreRoundTrip ==
    [][ \A id \in SessionIds :
          /\ LoadSession(id)
             => /\ saved[id].mem = Nothing
                     => (result'.mem = Nothing /\ result'.file = Nothing)
                /\ saved[id].mem # Nothing
                     => /\ result'.file = saved[id].file
                        /\ result'.mem = saved[id].mem
          /\ SaveSession(id)
             => \A other \in SessionIds \ {id} :
                  /\ InMemoryStore_load_session(other)'
                        = InMemoryStore_load_session(other)
                  /\ JSONFileStore_load_session(other)'
                        = JSONFileStore_load_session(other) ]_vars

\* C20: under the same sequence of saves, loads and changes made by the
\* caller to the dict it holds, both backends return equal states from every
\* load_session.
C20_BackendsEquivalent ==
    (pc = "caller" /\ result.kind = "load") => result.mem = result.file

\* C21: in every reachable state next_action is unset or one of classifier,
\* seller, negotiator, supervisor, crm, wait_for_response, escalate, end.
C21_NextActionInClosedSet ==
    \A s \in SessionStates :
        s[1].next_action \in
            {None, "classifier", "seller", "negotiator", "supervisor", "crm",
             "wait_for_response", "escalate", "end"}

\* C22: in every reachable state qualified equals (lead_score >= 40): in a
\* new state, after a parsed classification, after a classification that
\* could not be parsed and after every other role's turn.
C22_QualifiedIffScoreAtThreshold ==
    \A s \in SessionStates :
        s[1].qualified = (s[1].lead_score >= QualificationThreshold)

C22_Witness ==
    /\ last = "classifier:parse_failed"
    /\ "supervisor" \in {invoked[i] : i \in 1..Len(invoked)}
    /\ st # Nothing
    /\ st[1].lead_type # None
    /\ st[1].lead_score = 0
    /\ ~st[1].qualified

\* C23: in every reachable state current_offer is unset when offers_made is
\* empty and otherwise is the last element of offers_made.
C23_CurrentOfferIsLastOffer ==
    \A s \in SessionStates :
        IF s[1].offers_made = <<>>
        THEN s[1].current_offer = Nothing
        ELSE s[1].current_offer = Some(s[1].offers_made[Len(s[1].offers_made)])

C23_Witness ==
    /\ last = "negotiator:parsed"
    /\ st # Nothing
    /\ Len(st[1].offers_made) >= 2
    /\ st[1].current_offer = Some([offre |-> "AJUSTEE", remise |-> 20])
    /\ st[1].offers_made[Len(st[1].offers_made)].offre = "AJUSTEE"

is_prefix(before, after) ==
    /\ Len(before) <= Len(after)
    /\ SubSeq(after, 1, Len(before)) = before

grows_only(before, after) ==
    /\ is_prefix(before.messages, after.messages)
    /\ is_prefix(before.offers_made, after.offers_made)
    /\ is_prefix(before.objections, after.objections)
    /\ is_prefix(before.key_insights, after.key_insights)

\* C24: messages, offers_made, objections and key_insights only grow at the
\* end.  Across every step of a role, the dispatcher, continue_conversation
\* and a save followed by a load, the earlier value of each of the four is a
\* prefix of the later value of the same session.
C24_SequencesAppendOnly ==
    [][ \A id \in SessionIds :
          LET before == {s \in {st, store[id]} :
                            s # Nothing /\ s[1].session_id = id}
              after  == {s \in {st', result'.state} :
                            s # Nothing /\ s[1].session_id = id}
              saved_now == IF store'[id] # store[id] THEN {store'[id]} ELSE {}
          IN \A b \in before, a \in after \cup saved_now :
                grows_only(b[1], a[1]) ]_vars

C24_Witness ==
    /\ deploy = "web"
    /\ pc = "idle"
    /\ calls = 1
    /\ result.kind = "state"
    /\ store["s1"] = result.state
    /\ Len(result.state[1].messages) >= 5
    /\ Len(result.state[1].offers_made) >= 2
    /\ Len(result.state[1].objections) >= 2
    /\ result.state[1].key_insights # <<>>

C26_SaveFailurePropagates ==
    [][ (last' \in {"crm:save_failed", "mcp_decision:save_failed"}
         /\ steps' = steps + 1)
        => /\ result'.kind = "OSError"
           /\ result'.state = Nothing
           /\ pc' = "idle" ]_vars

C26_Witness ==
    /\ last = "crm:save_failed"
    /\ result.kind = "OSError"
    /\ store["s1"] # Nothing
    /\ store["s1"][1].closed
    /\ store["s1"][1].crm_synced

\* C28: get_conversation_history(session_id) returns the stored messages of
\* a known session in their order, the empty list for a session the store
\* does not hold, and in both cases leaves the store and the insights as
\* they were.
C28_HistoryIsReadOnly ==
    [][ \A id \in SessionIds :
          GetConversationHistory(id)
          => /\ result'.messages = IF store[id] = Nothing THEN <<>>
                                   ELSE store[id][1].messages
             /\ store' = store
             /\ insights' = insights
             /\ st' = st ]_vars

C28_Witness ==
    /\ last = "get_conversation_history"
    /\ result.kind = "history"
    /\ Len(result.messages) >= 3
    /\ store["s1"] # Nothing
    /\ result.messages = store["s1"][1].messages
    /\ \E i \in 1..Len(result.messages) : result.messages[i].role = "user"

\* C29: a Negotiator turn whose completion output cannot be parsed still adds
\* exactly 1 to negotiation_count and appends one fallback message, and the
\* run goes on.
C29_NegotiatorFailureCountsRound ==
    [][ (Invokes("negotiator") /\ last' = "negotiator:parse_failed")
        => /\ st' # Nothing
           /\ st'[1].negotiation_count = st[1].negotiation_count + 1
           /\ Len(st'[1].messages) = Len(st[1].messages) + 1 ]_vars

\* C30: after a Seller, Negotiator or Supervisor turn whose output could not
\* be parsed, next_action is wait_for_response and qualified, converted,
\* escalated, closed and crm_synced are what they were before the turn.
C30_ParseFailureWaitsForResponse ==
    [][ ( /\ pc \in {"seller", "negotiator", "supervisor"}
          /\ invoked' = Append(invoked, pc)
          /\ last' \in {"seller:parse_failed", "negotiator:parse_failed",
                        "supervisor:parse_failed"} )
        => /\ st' # Nothing
           /\ st'[1].next_action = "wait_for_response"
           /\ \A flag \in {"qualified", "converted", "escalated", "closed",
                           "crm_synced"} : st'[1][flag] = st[1][flag] ]_vars

\* C27: with two sessions in flight at once on one orchestrator and one
\* store, a step of one session changes neither the other session's
\* in-flight state nor its stored state, and a session whose run has returned
\* has, as final state and as stored state, exactly what running it alone on
\* the same completions gives.
C27_SessionsIndependent ==
    [][ \A id \in SessionIds :
          /\ requests'[id] # requests[id]
             => \A other \in SessionIds \ {id} :
                  /\ requests'[other] = requests[other]
                  /\ store'[other] = store[other]
          /\ ( /\ requests'[id] # Nothing
               /\ requests'[id][1].result.kind = "state" )
             => LET r == requests'[id][1]
                    alone == graph_invoke(r.entry, r.replies)
                IN /\ r.result.state = Some(alone)
                   /\ store'[id] = Some(alone) ]_vars

C27_Witness ==
    /\ requests["s1"] # Nothing
    /\ requests["s2"] # Nothing
    /\ requests["s1"][1].pc = "done"
    /\ requests["s1"][1].result.kind = "state"
    /\ requests["s1"][1].replies # <<>>
    /\ requests["s2"][1].pc \notin {"done", "mcp_decision"}
    /\ Len(requests["s2"][1].replies) >= 2
    /\ Len(requests["s1"][1].entry.messages) = 3

\* C31: no retry within a run.  The dispatcher decision that follows a role's
\* unparsable completion does not route to that same role again.
C31_NoRetryAfterParseFailure ==
    [][ \A role \in {"classifier", "seller", "negotiator", "supervisor"} :
          ( /\ pc = "mcp_decision"
            /\ steps' = steps + 1
            /\ invoked # <<>>
            /\ invoked[Len(invoked)] = role
            /\ last \in {"classifier:parse_failed", "seller:parse_failed",
                         "negotiator:parse_failed", "supervisor:parse_failed"} )
          => pc' # role ]_vars

\* C32: the Supervisor's routing table.  A parsed analysis with goal_achieved
\* or should_close gives next_action = crm; otherwise next_agent classifier,
\* seller or negotiator gives that role; otherwise next_action is
\* wait_for_response; an unparsable analysis gives wait_for_response.
C32_SupervisorRoutingTable ==
    [][ \A reply \in SupervisorReplies :
          ( /\ Invokes("supervisor")
            /\ st' = Some(supervisor_process(st[1], reply).state) )
          => st'[1].next_action =
               IF ~reply.ok THEN "wait_for_response"
               ELSE IF reply.goal_achieved \/ reply.should_close THEN "crm"
               ELSE IF reply.next_agent \in {"classifier", "seller", "negotiator"}
                    THEN reply.next_agent
               ELSE "wait_for_response" ]_vars

\* C33: on an open, classified session the first routing decision of
\* continue_conversation goes to the CRM role if the new message converts
\* with an offer made or escalated is already true, and to the Supervisor in
\* every other case, whatever next_action the stored state carried.
C33_ContinueRoutesAfresh ==
    [][ ( /\ last = "continue_conversation"
          /\ pc = "mcp_decision"
          /\ steps' = steps + 1
          /\ st[1].lead_type # None
          /\ ~st[1].closed )
        => /\ st[1].next_action = None
           /\ pc' = IF \/ ( /\ st[1].offers_made # <<>>
                            /\ check_for_conversion(st[1]) )
                       \/ st[1].escalated
                    THEN "crm" ELSE "supervisor"
           /\ invoked' = <<>> ]_vars

C33_Witness ==
    /\ pc = "supervisor"
    /\ last = "mcp_decision"
    /\ steps = 1
    /\ invoked = <<>>
    /\ st[1].session_id = "s1"
    /\ store["s1"] # Nothing
    /\ store["s1"][1].next_action = "nurture"

\* C34: in a start run a parsed classification at or above the threshold is
\* followed by the Seller, and when the Seller's output parses the run ends
\* there: it returns with exactly one offer in offers_made, current_offer
\* equal to it and exactly one pitch message.
C34_QualifiedLeadGetsOneOffer ==
    [][ /\ ( /\ last = "classifier:parsed"
             /\ pc = "mcp_decision"
             /\ steps' = steps + 1
             /\ invoked = <<"classifier">>
             /\ st[1].session_id \in NewSessionIds
             /\ st[1].lead_type # None
             /\ st[1].lead_score >= QualificationThreshold )
           => pc' = "seller"
        /\ ( /\ last = "seller:parsed"
             /\ pc = "mcp_decision"
             /\ steps' = steps + 1
             /\ invoked = <<"classifier", "seller">>
             /\ st[1].session_id \in NewSessionIds )
           => /\ pc' = "idle"
              /\ result'.kind = "state"
              /\ LET final == result'.state[1]
                 IN /\ Len(final.offers_made) = 1
                    /\ final.current_offer = Some(final.offers_made[1])
                    /\ Cardinality({i \in 1..Len(final.messages) :
                                       final.messages[i].agent = "seller"}) = 1
      ]_vars

\* C35: a Seller turn whose completion output cannot be parsed appends
\* exactly one assistant message, the raw text, and changes nothing else of
\* the state.
C35_SellerFailureOnlyAppendsRawText ==
    [][ (Invokes("seller") /\ last' = "seller:parse_failed")
        => /\ st' # Nothing
           /\ st'[1] = [st[1] EXCEPT
                          !.messages = Append(@, Message("assistant", <<"RAW">>,
                                                         "seller", "parse_failed"))]
      ]_vars

C35_Witness ==
    /\ last = "seller:parse_failed"
    /\ pc = "mcp_decision"
    /\ st[1].offers_made # <<>>
    /\ st[1].current_offer # Nothing
    /\ st[1].messages[Len(st[1].messages)].note = "parse_failed"

\* C36: each status flag has one writer.  qualified changes only in a
\* Classifier turn, converted only in the dispatcher's decision node,
\* escalated only in a Negotiator or Supervisor turn, closed and crm_synced
\* only in a CRM turn; loading a session for continue_conversation and
\* every other step leave the flags as they were.
C36_FlagsHaveOneWriter ==
    [][ LET after == IF st' # Nothing THEN st' ELSE result'.state
        IN /\ (st # Nothing /\ after # Nothing)
              => /\ after[1].qualified # st[1].qualified => pc = "classifier"
                 /\ after[1].converted # st[1].converted => pc = "mcp_decision"
                 /\ after[1].escalated # st[1].escalated
                       => pc \in {"negotiator", "supervisor"}
                 /\ after[1].closed # st[1].closed => pc = "crm"
                 /\ after[1].crm_synced # st[1].crm_synced => pc = "crm"
           /\ (last' = "continue_conversation" /\ st' # Nothing)
              => \A flag \in {"qualified", "converted", "escalated", "closed",
                              "crm_synced"} :
                    st'[1][flag] = store[st'[1].session_id][1][flag]
      ]_vars

C36_Witness ==
    /\ last = "crm"
    /\ invoked = <<"classifier", "seller", "crm">>
    /\ result.kind = "state"
    /\ result.state[1].session_id = "s2"
    /\ result.state[1].qualified
    /\ result.state[1].converted
    /\ ~result.state[1].escalated
    /\ result.state[1].closed
    /\ result.state[1].crm_synced

MaxDiscount == 15

\* C37: every offer recorded in offers_made, from the Seller or adjusted by
\* the Negotiator, has a discount between 0 and max_discount (15).
C37_DiscountWithinBound ==
    \A s \in SessionStates :
        \A i \in 1..Len(s[1].offers_made) :
            s[1].offers_made[i].remise \in 0..MaxDiscount

\* C38: in every reachable state of every session negotiation_count is
\* between 0 and 3.
C38_NegotiationCountBounded ==
    \A s \in SessionStates :
        s[1].negotiation_count \in 0..MaxNegotiations

C38_Witness ==
    /\ last = "negotiator:parsed"
    /\ st # Nothing
    /\ st[1].negotiation_count = MaxNegotiations
    /\ Len(st[1].objections) = MaxNegotiations

\* C39: converted becomes true only in response to a prospect message that
\* arrived after an offer had been made: when the dispatcher sets converted,
\* an offer message of the Seller or the Negotiator precedes the prospect's
\* latest message in the conversation.
C39_ConvertedOnlyByLaterMessage ==
    [][ ( /\ st # Nothing /\ st' # Nothing
          /\ ~st[1].converted
          /\ st'[1].converted )
        => LET messages == st[1].messages
               users == {i \in 1..Len(messages) : messages[i].role = "user"}
               latest == CHOOSE i \in users : \A k \in users : k <= i
           IN /\ users # {}
              /\ \E i \in 1..(latest - 1) :
                    /\ messages[i].role = "assistant"
                    /\ messages[i].note \in {"offer", "round"} ]_vars

\* C40: once a session is closed no role is invoked for it again.  A run on
\* a closed state is at the dispatcher's first decision, with no role
\* invoked and no completion requested, and leaves from there to END; so
\* the CRM role runs at most once per session.
C40_ClosedSessionInvokesNoRole ==
    (pc # "idle" /\ st # Nothing /\ st[1].closed)
        => /\ pc = "mcp_decision"
           /\ steps = 0
           /\ invoked = <<>>
           /\ llm_calls = 0
           /\ route_from_mcp(mcp_decision_node(st[1])) = "end"

C40_Witness ==
    /\ last = "mcp_decision:end"
    /\ steps = 1
    /\ invoked = <<>>
    /\ result.kind = "state"
    /\ result.state[1].closed
    /\ result.state[1].crm_synced
    /\ result.state[1].messages[Len(result.state[1].messages)].role = "user"

====
